---- MODULE Spec2Model ----
(***************************************************************************)
(* Model of the "Move Quickly" tool of klayout-move-tool                   *)
(* (src/pymacros/move_tool_plugin.py, src/pymacros/utils/editor_options.py)*)
(*                                                                         *)
(* Coordinates are integers counting database units; a micron value (the   *)
(* D-types of the host) is written in the same unit.  A point is <<x, y>>, *)
(* a box is <<left, bottom, right, top>>.  Python's None is <<>> for an    *)
(* optional point and for the optional selection (the code never holds a   *)
(* selection with zero objects, see selected_objects), and a record of     *)
(* kind "None" for an optional object.                                     *)
(***************************************************************************)
EXTENDS Integers, Sequences, FiniteSets, TLC

\* ------------------------------------------------------------------ bounds
\* objects lie at x in 0..MaxX (the environment moves them along x only)
MaxX == 1
\* the points handed to constrain_angle have coordinates in -MaxCoord..MaxCoord
MaxCoord == 2

\* ------------------------------------------------------------ the layout
\* top-level instances of the viewed cell, in the order the host iterates them
InstOrder == <<"i1">>
\* shapes owned directly by the viewed cell, in the order the host iterates them
ShapeOrder == <<"s1">>
\* shapes inside the cell of an instance (reachable only through the instance)
SubShapes == {"a"}

Range(f) == {f[i] : i \in DOMAIN f}
Insts == Range(InstOrder)
TopShapes == Range(ShapeOrder)
Transformees == Insts \cup TopShapes

Xs == 0..MaxX
Positions == Xs \X {0}
\* where the user clicks and moves the cursor: the centre of an object at
\* x = 0 and at x = 1
CursorPoints == {<<1, 1>>, <<2, 1>>}
\* where the user presses the button to start a drag, and where the drag goes
\* and ends: the upper right corner of an object at x = 0 and at x = 1
PressPoints == {<<0, 0>>}
DragPoints == {<<2, 2>>, <<3, 2>>}

NoPoint == <<>>
NoSelection == <<>>
NoOperation == [kind |-> "None"]
NoOptions == [kind |-> "None"]

\* every object is a square of two by two database units at its position
BoxAt(p) == <<p[1], p[2], p[1] + 2, p[2] + 2>>

Min(a, b) == IF a <= b THEN a ELSE b
Max(a, b) == IF a >= b THEN a ELSE b
Abs(a) == IF a < 0 THEN 0 - a ELSE a

\* pya.DBox(p1, p2): the box spanned by two points, corners normalised
DBox(p, q) == <<Min(p[1], q[1]), Min(p[2], q[2]), Max(p[1], q[1]), Max(p[2], q[2])>>
\* pya.Box.touches / overlaps / inside
BoxTouches(a, b) == a[1] <= b[3] /\ b[1] <= a[3] /\ a[2] <= b[4] /\ b[2] <= a[4]
BoxOverlaps(a, b) == a[1] < b[3] /\ b[1] < a[3] /\ a[2] < b[4] /\ b[2] < a[4]
BoxInside(a, b) == b[1] <= a[1] /\ a[3] <= b[3] /\ b[2] <= a[2] /\ a[4] <= b[4]
BoxUnion(a, b) == <<Min(a[1], b[1]), Min(a[2], b[2]), Max(a[3], b[3]), Max(a[4], b[4])>>
BoxMoved(a, d) == <<a[1] + d[1], a[2] + d[2], a[3] + d[1], a[4] + d[2]>>

VecAdd(p, d) == <<p[1] + d[1], p[2] + d[2]>>
VecSub(p, q) == <<p[1] - q[1], p[2] - q[2]>>

\* --------------------------------------------------------- program state
VARIABLES
    state,                       \* MoveQuicklyToolPlugin._state
    selection,                   \* MoveQuicklyToolPlugin._selection (objects, <<>> = None)
    move_preview_markers,        \* boxes of the live move preview markers
    drag_selection_markers,      \* boxes of the live drag selection markers
    editor_options,              \* EditorOptions or NoOptions
    is_dragging,
    drag_selection_from_dpoint,
    drag_selection_to_dpoint,
    move_from_dpoint,
    move_operation,
    setupDock,                   \* TRUE once the dock widget has been created
    object_selection,            \* host: view.object_selection (ObjectInstPaths)
    pos,                         \* host: position of every instance / shape of the viewed cell
    open_transactions,           \* host: transactions opened and not yet committed
    view,                        \* host: view configuration
    host_active,                 \* host: TRUE while the host has this plugin activated
    pointer_move,                \* history: the PointerMove the latest drag motion built
                                 \* since the state became MOVING (NoOperation: none yet)
    angle_call                   \* the latest call of AngleMode.constrain_angle made on
                                 \* its own: mode (self), origin, destination, result

\* the variables of the tool and its host
toolvars == <<state, selection, move_preview_markers, drag_selection_markers,
              editor_options, is_dragging, drag_selection_from_dpoint,
              drag_selection_to_dpoint, move_from_dpoint, move_operation, setupDock,
              object_selection, pos, open_transactions, view, host_active,
              pointer_move>>

vars == <<toolvars, angle_call>>

NoTransforms == [t \in Transformees |-> 0]

\* The plugin object and the host it talks to, as one record a handler maps to
\* its successor; raised / n_* describe the handler that is running.
Self ==
    [state |-> state, selection |-> selection,
     move_preview_markers |-> move_preview_markers,
     drag_selection_markers |-> drag_selection_markers,
     editor_options |-> editor_options, is_dragging |-> is_dragging,
     drag_selection_from_dpoint |-> drag_selection_from_dpoint,
     drag_selection_to_dpoint |-> drag_selection_to_dpoint,
     move_from_dpoint |-> move_from_dpoint, move_operation |-> move_operation,
     setupDock |-> setupDock, object_selection |-> object_selection, pos |-> pos,
     open_transactions |-> open_transactions, view |-> view,
     raised |-> "", n_transaction |-> 0, n_commit |-> 0,
     n_transform |-> NoTransforms, n_hit_tests |-> 0,
     delta |-> <<0, 0>>, built |-> FALSE, returned |-> "", written |-> <<>>]

Raise(s, exc) == [s EXCEPT !.raised = exc]

\* the record r a handler left, as the next handler finds it
Fresh(r) ==
    [r EXCEPT !.raised = "", !.n_transaction = 0, !.n_commit = 0,
              !.n_transform = NoTransforms, !.n_hit_tests = 0,
              !.delta = <<0, 0>>, !.built = FALSE, !.returned = "",
              !.written = <<>>]

\* -------------------------------------------------------- selection model
\* the layer every top-level shape lives on
ShapeLayer == [sh \in TopShapes |-> 0]

\* one iteration of the loop of selected_objects: the objects added for host path o
ObjectsOfPath(s, o) ==
    IF Len(o.path) = 0
    THEN IF o.shape # ""
         THEN <<[kind |-> "ShapeOfInstance", shape |-> o.shape,
                 layer |-> ShapeLayer[o.shape], path |-> o,
                 bbox |-> BoxAt(s.pos[o.shape])]>>
         ELSE <<>>
    ELSE <<[kind |-> "Instance", instance |-> o.path[1], path |-> o,
            bbox |-> BoxAt(s.pos[o.path[1]])]>>

RECURSIVE ObjectsOfPaths(_, _)
ObjectsOfPaths(s, paths) ==
    IF paths = <<>> THEN <<>>
    ELSE ObjectsOfPath(s, Head(paths)) \o ObjectsOfPaths(s, Tail(paths))

\* MoveQuicklyToolPlugin.selected_objects: None (<<>>) when nothing is selected
selected_objects(s) == ObjectsOfPaths(s, s.object_selection)

RECURSIVE UnionOfBoxes(_)
UnionOfBoxes(objs) ==
    IF Len(objs) = 1 THEN objs[1].bbox
    ELSE BoxUnion(objs[1].bbox, UnionOfBoxes(Tail(objs)))

\* bbox as the box of the first member
selection_bbox_of_first(sel) == sel[1].bbox

\* MoveQuicklyToolSelection.bbox / position
selection_bbox(sel) == UnionOfBoxes(sel)
selection_position(sel) == <<selection_bbox(sel)[1], selection_bbox(sel)[2]>>

\* MoveQuicklyToolSetupWidget.updatePositionValues; written: the values the
\* running handler left in the fields X, Y, dX, dY of the panel
updatePositionValues(s, x, y, dx, dy) == [s EXCEPT !.written = <<x, y, dx, dy>>]

\* MoveQuicklyToolSetupWidget.updateSelection
updateSelection(s, sel) ==
    IF sel # NoSelection
    THEN updatePositionValues(s, selection_position(sel)[1], selection_position(sel)[2], 0, 0)
    ELSE updatePositionValues(s, 0, 0, 0, 0)

\* the selection setter
set_selection(s, sel) ==
    LET s1 == [s EXCEPT !.selection = sel]
    IN IF s1.setupDock THEN updateSelection(s1, sel) ELSE s1

\* the reference a selected object is translated through
TransformeeOf(o) == IF o.kind = "Instance" THEN o.instance ELSE o.shape

\* MoveQuicklyToolSelection.transform: the loop from object i on; the host call
\* on object fail_at raises (0: none does).  deselects: the host drops its
\* object selection when an instance is transformed (KLayout 0.30.3).
RECURSIVE TransformFrom(_, _, _, _, _)
TransformFrom(s, trans, i, fail_at, deselects) ==
    IF i > Len(s.selection) THEN s
    ELSE IF i = fail_at THEN Raise(s, "RuntimeError")
    ELSE LET o == s.selection[i] IN
         IF o.kind = "Instance"
         THEN TransformFrom(
                [s EXCEPT !.pos[o.instance] = VecAdd(@, trans),
                          !.n_transform[o.instance] = @ + 1,
                          !.object_selection = IF deselects THEN <<>> ELSE @,
                          !.selection[i].path.path = <<o.instance>>],
                trans, i + 1, fail_at, deselects)
         ELSE IF o.kind # "ShapeOfInstance"
         THEN TransformFrom(s, trans, i + 1, fail_at, deselects)
         ELSE IF Len(o.path.path) = 0
         THEN TransformFrom(
                [s EXCEPT !.pos[o.shape] = VecAdd(@, trans),
                          !.n_transform[o.shape] = @ + 1,
                          !.selection[i].path.shape = o.shape],
                trans, i + 1, fail_at, deselects)
         ELSE TransformFrom(s, trans, i + 1, fail_at, deselects)

transform(s, trans, fail_at, deselects) == TransformFrom(s, trans, 1, fail_at, deselects)

\* ---------------------------------------------------------- move operation
\* effective_delta taking a TextMoveOperation to its target, without dx, dy
effective_delta_to_target(op) ==
    IF op.kind = "MouseMoveOperation"
    THEN VecAdd(VecSub(op.snapped_position, op.original_position), op.snapped_cursor_delta)
    ELSE VecSub(<<op.x, op.y>>, op.original_position)

\* MouseMoveOperation.effective_delta / TextMoveOperation.effective_delta
\* (a MouseMoveOperation also stores the two raw cursor points, which nothing
\* reads; the model leaves them out of the record)
effective_delta(op) ==
    IF op.kind = "MouseMoveOperation"
    THEN VecAdd(VecSub(op.snapped_position, op.original_position), op.snapped_cursor_delta)
    ELSE VecAdd(VecSub(<<op.x, op.y>>, op.original_position), <<op.dx, op.dy>>)

\* ----------------------------------------------------------------- markers
_clear_move_preview_markers(s) == [s EXCEPT !.move_preview_markers = <<>>]
_clear_drag_selection_markers(s) == [s EXCEPT !.drag_selection_markers = <<>>]
_clear_all_markers(s) == _clear_drag_selection_markers(_clear_move_preview_markers(s))

update_move_preview_markers(s) ==
    LET c == _clear_move_preview_markers(s) IN
    IF c.selection = NoSelection THEN c
    ELSE IF c.state # "moving" THEN c
    ELSE IF c.move_operation.kind = "None" THEN c
    ELSE [c EXCEPT !.move_preview_markers =
            Append(@, BoxMoved(selection_bbox(c.selection), effective_delta(c.move_operation)))]

update_drag_selection_markers(s) ==
    LET c == _clear_drag_selection_markers(s) IN
    IF c.state # "drag_selecting" THEN c
    ELSE [c EXCEPT !.drag_selection_markers =
            Append(@, DBox(c.drag_selection_from_dpoint, c.drag_selection_to_dpoint))]

\* ---------------------------------------------------------- editor options
\* constrain_angle returning the destination in every mode
constrain_angle_unconstrained(mode, origin, destination) == destination

\* constrain_angle with the MANHATTAN test written as abs(dx) >= abs(dy)
constrain_angle_ties_horizontal(mode, origin, destination) ==
    LET dx == destination[1] - origin[1]
        dy == destination[2] - origin[2]
    IN IF mode = "any" THEN destination
       ELSE IF Abs(dx) >= Abs(dy) THEN <<origin[1] + dx, origin[2]>>
       ELSE <<origin[1], origin[2] + dy>>

\* the candidates of the DIAGONAL case, in the order of the list: the angles
\* 0, pi, pi/2, -pi/2, pi/4, -pi/4, 3pi/4, -3pi/4 as vectors (cos, sin), the
\* diagonal ones scaled by sqrt(2)
Candidates ==
    <<(<<1, 0>>), (<<-1, 0>>), (<<0, 1>>), (<<0, -1>>),
      (<<1, 1>>), (<<1, -1>>), (<<-1, 1>>), (<<-1, -1>>)>>

Dot(a, b) == a[1] * b[1] + a[2] * b[2]
\* x * |x|: ordered as x is, and free of the square root of a length
SignedSquare(x) == x * Abs(x)

\* the key of min(candidates, ...): the angle between d and candidate a is
\* smaller than the one between d and candidate b, i.e. its cosine
\* (a.d)/(|a||d|) is larger
NearerAngle(a, b, d) ==
    SignedSquare(Dot(a, d)) * Dot(b, b) > SignedSquare(Dot(b, d)) * Dot(a, a)

\* min(candidates, key = ...): the first candidate no other one beats
\* (atan2(0, 0) is 0, the first candidate)
BestCandidate(d) ==
    Candidates[CHOOSE i \in DOMAIN Candidates :
                  /\ \A j \in DOMAIN Candidates : ~NearerAngle(Candidates[j], Candidates[i], d)
                  /\ \A j \in 1..(i - 1) :
                        \E k \in DOMAIN Candidates : NearerAngle(Candidates[k], Candidates[j], d)]

\* the projection of d onto candidate u: dot * (ux, uy) for the unit vector,
\* (d.u / u.u) * u for the scaled one; written for dx + dy even, where its
\* coordinates are integers
Projection(d, u) == <<(Dot(d, u) \div Dot(u, u)) * u[1], (Dot(d, u) \div Dot(u, u)) * u[2]>>

\* constrain_angle with the DIAGONAL mode handled as MANHATTAN
constrain_angle_axes_only(mode, origin, destination) ==
    LET dx == destination[1] - origin[1]
        dy == destination[2] - origin[2]
    IN IF mode = "any" THEN destination
       ELSE IF Abs(dx) > Abs(dy) THEN <<origin[1] + dx, origin[2]>>
       ELSE <<origin[1], origin[2] + dy>>

\* AngleMode.constrain_angle
constrain_angle(mode, origin, destination) ==
    LET dx == destination[1] - origin[1]
        dy == destination[2] - origin[2]
    IN IF mode = "any" THEN destination
       ELSE IF mode = "diagonal"
       THEN VecAdd(origin, Projection(<<dx, dy>>, BestCandidate(<<dx, dy>>)))
       ELSE IF Abs(dx) > Abs(dy) THEN <<origin[1] + dx, origin[2]>>
       ELSE <<origin[1], origin[2] + dy>>

\* EditorOptions(view): reads the view's configuration
NewEditorOptions(v) ==
    [kind |-> "EditorOptions",
     edit_connect_angle_mode |-> v.connect_angle_mode,
     edit_move_angle_mode |-> v.move_angle_mode,
     grid |-> v.grid]

\* EditorOptions.plugin_configure with the two names exchanged
plugin_configure_exchanged(opts, name, value) ==
    IF name = "edit-connect-angle-mode" THEN [opts EXCEPT !.edit_move_angle_mode = value]
    ELSE IF name = "edit-move-angle-mode" THEN [opts EXCEPT !.edit_connect_angle_mode = value]
    ELSE opts

\* EditorOptions.plugin_configure
plugin_configure(opts, name, value) ==
    IF name = "edit-connect-angle-mode" THEN [opts EXCEPT !.edit_connect_angle_mode = value]
    ELSE IF name = "edit-move-angle-mode" THEN [opts EXCEPT !.edit_move_angle_mode = value]
    ELSE opts

\* EditorOptions.constrain_angle as the plugin calls it: the move angle mode
options_constrain_angle(opts, origin, destination) ==
    constrain_angle(opts.edit_move_angle_mode, origin, destination)

\* rounding of one coordinate to the nearest multiple of the grid
SnapCoord(g, c) == ((2 * c + g) \div (2 * g)) * g

\* EditorOptions.snap_to_grid_if_necessary
snap_to_grid_if_necessary(opts, p) == <<SnapCoord(opts.grid, p[1]), SnapCoord(opts.grid, p[2])>>

\* ------------------------------------------------------------ the hit test
\* ContainmentConstraint.matches with the touch test for both constraints
matches_touching(constraint, search_box, candidate_box) ==
    BoxTouches(candidate_box, search_box)

\* ContainmentConstraint.matches with the enclosure test for both constraints
matches_enclosing_only(constraint, search_box, candidate_box) ==
    BoxInside(candidate_box, search_box)

\* ContainmentConstraint.matches
matches(constraint, search_box, candidate_box) ==
    IF constraint = "search_box_encloses_object"
    THEN BoxInside(candidate_box, search_box)
    ELSE BoxTouches(candidate_box, search_box)

\* MoveQuicklyToolPlugin.visible_layer_indexes
RECURSIVE VisibleFrom(_)
VisibleFrom(layers) ==
    IF layers = <<>> THEN <<>>
    ELSE LET lref == Head(layers) IN
         (IF lref.visible /\ lref.valid /\ lref.layer_index # -1
          THEN <<lref.layer_index>> ELSE <<>>) \o VisibleFrom(Tail(layers))

visible_layer_indexes(s) == VisibleFrom(s.view.layers)

\* the instance loop of _select_objects from the i-th instance the host's
\* overlap iterator can deliver; acc = [sel: paths, added: objects]
RECURSIVE ScanInstances(_, _, _, _, _)
ScanInstances(s, search_box, constraint, i, acc) ==
    IF i > Len(InstOrder) THEN acc
    ELSE LET inst == InstOrder[i]
             bb == BoxAt(s.pos[inst])
             add == /\ BoxOverlaps(bb, search_box)
                    /\ inst \notin acc.added
                    /\ matches(constraint, search_box, bb)
                    /\ inst \notin s.view.hidden_cells
         IN ScanInstances(s, search_box, constraint, i + 1,
                IF add THEN [sel |-> Append(acc.sel, [path |-> <<inst>>, shape |-> ""]),
                             added |-> acc.added \cup {inst}]
                ELSE acc)

\* the shape loop of _select_objects for one layer, from the i-th shape on
RECURSIVE ScanShapes(_, _, _, _, _, _)
ScanShapes(s, search_box, constraint, lyr, i, acc) ==
    IF i > Len(ShapeOrder) THEN acc
    ELSE LET sh == ShapeOrder[i]
             bb == BoxAt(s.pos[sh])
             add == /\ ShapeLayer[sh] = lyr
                    /\ BoxOverlaps(bb, search_box)
                    /\ sh \notin acc.added
                    /\ matches(constraint, search_box, bb)
         IN ScanShapes(s, search_box, constraint, lyr, i + 1,
                IF add THEN [sel |-> Append(acc.sel, [path |-> <<>>, shape |-> sh]),
                             added |-> acc.added \cup {sh}]
                ELSE acc)

RECURSIVE ScanLayers(_, _, _, _, _)
ScanLayers(s, search_box, constraint, lyrs, acc) ==
    IF lyrs = <<>> THEN acc
    ELSE ScanLayers(s, search_box, constraint, Tail(lyrs),
                    ScanShapes(s, search_box, constraint, Head(lyrs), 1, acc))

\* the scan of the top cell without the test of is_cell_hidden(top_cell)
ScanTopCell_of_hidden_cell(s, search_box, constraint, acc) ==
    IF s.view.max_hier_levels >= 1
    THEN ScanLayers(s, search_box, constraint, visible_layer_indexes(s),
                    ScanInstances(s, search_box, constraint, 1, acc))
    ELSE acc

\* the scan of the (one) top cell
ScanTopCell(s, search_box, constraint, acc) ==
    IF s.view.top_cell_hidden THEN acc
    ELSE IF s.view.max_hier_levels >= 1
    THEN ScanLayers(s, search_box, constraint, visible_layer_indexes(s),
                    ScanInstances(s, search_box, constraint, 1, acc))
    ELSE acc

\* _select_objects keeping every match when the popup menu is dismissed
_select_objects_keeps_matches_on_cancel(s0, search_box, selection_mode, containment_constraint, allow_multiple, choice) ==
    LET s == [s0 EXCEPT !.n_hit_tests = @ + 1] IN
    IF selection_mode = "Add"
    THEN Raise(s, "UnboundLocalError")
    ELSE LET found == ScanTopCell(s, search_box, containment_constraint,
                                  [sel |-> <<>>, added |-> {}]).sel
             selected == IF Len(found) >= 2 /\ ~allow_multiple /\ choice \in 1..Len(found)
                         THEN <<found[choice]>> ELSE found
             s1 == [s EXCEPT !.object_selection = selected]
         IN set_selection(s1, selected_objects(s1))

\* MoveQuicklyToolPlugin._select_objects; choice is what the user picks in the
\* popup menu when it is shown (0: dismissed)
_select_objects(s0, search_box, selection_mode, containment_constraint, allow_multiple, choice) ==
    LET s == [s0 EXCEPT !.n_hit_tests = @ + 1] IN
    IF selection_mode = "Add"
    THEN Raise(s, "UnboundLocalError")
    ELSE LET found == ScanTopCell(s, search_box, containment_constraint,
                                  [sel |-> <<>>, added |-> {}]).sel
             selected == IF Len(found) >= 2 /\ ~allow_multiple
                         THEN IF choice \in 1..Len(found) THEN <<found[choice]>> ELSE <<>>
                         ELSE found
             s1 == [s EXCEPT !.object_selection = selected]
         IN set_selection(s1, selected_objects(s1))

select_object_at(s, dpoint, buttons, choice) ==
    _select_objects(s, DBox(dpoint, dpoint),
                    IF "Shift" \in buttons THEN "Add" ELSE "Replace",
                    "search_box_overlaps_object", FALSE, choice)

select_objects_enclosed_by(s, search_box, selection_mode) ==
    _select_objects(s, search_box, selection_mode, "search_box_encloses_object", TRUE, 0)

\* ------------------------------------------------------------ the handlers
\* the state setter (the dock's updateState does nothing)
set_state(s, st) == [s EXCEPT !.state = st]

\* reselect_selection, the closure of commit_move
reselect_selection(s) ==
    [s EXCEPT !.object_selection = [i \in 1..Len(s.selection) |-> s.selection[i].path]]

\* the finally block without the call of reselect_selection
commit_move_finally_without_reselect(s) ==
    LET s1 == [s EXCEPT !.open_transactions = @ - 1, !.n_commit = @ + 1]
        s2 == set_state(s1, "selecting")
    IN set_selection(s2, selected_objects(s2))

\* the finally block of commit_move
commit_move_finally(s) ==
    LET s1 == [s EXCEPT !.open_transactions = @ - 1, !.n_commit = @ + 1]
        s2 == set_state(s1, "selecting")
        s3 == reselect_selection(s2)
    IN set_selection(s3, selected_objects(s3))

\* commit_move with the commit after the try block instead of in a finally
\* block: an exception of transform skips it
commit_move_without_finally(s, operation, fail_at, deselects) ==
    LET s1 == _clear_all_markers(s) IN
    IF s1.selection = NoSelection THEN set_state(s1, "selecting")
    ELSE IF operation.kind = "None" THEN set_state(s1, "selecting")
    ELSE LET delta == effective_delta(operation)
             s2 == [s1 EXCEPT !.open_transactions = @ + 1, !.n_transaction = @ + 1,
                              !.delta = delta]
             s3 == transform(s2, delta, fail_at, deselects)
         IN IF s3.raised # "" THEN s3 ELSE commit_move_finally(s3)

\* commit_move opening the transaction before it looks at its arguments
commit_move_opens_first(s, operation, fail_at, deselects) ==
    LET s1 == [_clear_all_markers(s) EXCEPT !.open_transactions = @ + 1,
                                            !.n_transaction = @ + 1] IN
    IF s1.selection = NoSelection THEN set_state(s1, "selecting")
    ELSE IF operation.kind = "None" THEN set_state(s1, "selecting")
    ELSE commit_move_finally(transform([s1 EXCEPT !.delta = effective_delta(operation)],
                                       effective_delta(operation), fail_at, deselects))

\* MoveQuicklyToolPlugin.commit_move
commit_move(s, operation, fail_at, deselects) ==
    LET s1 == _clear_all_markers(s) IN
    IF s1.selection = NoSelection THEN set_state(s1, "selecting")
    ELSE IF operation.kind = "None" THEN set_state(s1, "selecting")
    ELSE LET delta == effective_delta(operation)
             s2 == [s1 EXCEPT !.open_transactions = @ + 1, !.n_transaction = @ + 1,
                              !.delta = delta]
             s3 == transform(s2, delta, fail_at, deselects)
         IN commit_move_finally(s3)

\* activated without the initialisation of the selection from the host
activated_without_selection(s, view_is_visible) ==
    IF ~view_is_visible THEN s
    ELSE [s EXCEPT !.setupDock = TRUE,
                   !.editor_options = NewEditorOptions(s.view),
                   !.state = "selecting"]

\* MoveQuicklyToolPlugin.activated
activated(s, view_is_visible) ==
    IF ~view_is_visible THEN s
    ELSE LET s1 == [s EXCEPT !.setupDock = TRUE,
                             !.editor_options = NewEditorOptions(s.view),
                             !.state = "selecting"]
         IN set_selection(s1, selected_objects(s1))

\* deactivated without the call of _clear_all_markers
deactivated_keeps_markers(s) ==
    [set_selection(s, NoSelection) EXCEPT !.is_dragging = FALSE, !.state = "inactive",
                                          !.editor_options = NoOptions]

\* MoveQuicklyToolPlugin.deactivated
deactivated(s) ==
    LET s1 == set_selection(_clear_all_markers(s), NoSelection)
    IN [s1 EXCEPT !.is_dragging = FALSE, !.state = "inactive",
                  !.editor_options = NoOptions]

\* MoveQuicklyToolPlugin.configure; returned: "False", not handled
configure(s, name, value) ==
    LET s1 == IF s.editor_options.kind # "None"
              THEN [s EXCEPT !.editor_options = plugin_configure(@, name, value)]
              ELSE s
    IN [s1 EXCEPT !.returned = "False"]

\* the left-button branch without the call of _clear_move_preview_markers
mouse_moved_drag_keeps_preview(s, dpoint, buttons) ==
    LET s1 == [set_state(s, "drag_selecting") EXCEPT !.drag_selection_to_dpoint = dpoint] IN
    IF s1.drag_selection_from_dpoint = NoPoint THEN s1
    ELSE LET s3 == select_objects_enclosed_by(s1,
                       DBox(s1.drag_selection_from_dpoint, s1.drag_selection_to_dpoint),
                       IF "Shift" \in buttons THEN "Add" ELSE "Replace")
         IN IF s3.raised # "" THEN s3 ELSE update_drag_selection_markers(s3)

\* the branch of mouse_moved_event taken with the left button held
mouse_moved_drag(s, dpoint, buttons) ==
    LET s1 == [set_state(s, "drag_selecting") EXCEPT !.drag_selection_to_dpoint = dpoint] IN
    IF s1.drag_selection_from_dpoint = NoPoint THEN s1
    ELSE LET s2 == _clear_move_preview_markers(s1)
             s3 == select_objects_enclosed_by(s2,
                       DBox(s2.drag_selection_from_dpoint, s2.drag_selection_to_dpoint),
                       IF "Shift" \in buttons THEN "Add" ELSE "Replace")
         IN IF s3.raised # "" THEN s3 ELSE update_drag_selection_markers(s3)

\* the branch of mouse_moved_event taken with Shift held and no left button:
\* the assignment there binds a local name, the tool state is not written
mouse_moved_shift(s) == _clear_move_preview_markers(s)

\* the plain branch measuring the cursor delta from the raw start cursor
mouse_moved_plain_raw_start(s, dpoint) ==
    IF s.state # "moving" THEN s
    ELSE IF s.editor_options.kind = "None" \/ s.move_from_dpoint = NoPoint
            \/ s.selection = NoSelection
    THEN Raise(s, "AttributeError")
    ELSE LET snapped_to_cursor == snap_to_grid_if_necessary(s.editor_options, dpoint)
             constrained_to_cursor == options_constrain_angle(s.editor_options,
                                          s.move_from_dpoint, snapped_to_cursor)
             delta == VecSub(constrained_to_cursor, s.move_from_dpoint)
             orig_pos == selection_position(s.selection)
             p == snap_to_grid_if_necessary(s.editor_options, orig_pos)
             s1 == [s EXCEPT !.move_operation =
                        [kind |-> "MouseMoveOperation", original_position |-> orig_pos,
                         snapped_position |-> p, snapped_cursor_delta |-> delta],
                      !.built = TRUE]
         IN IF ~s1.setupDock THEN Raise(s1, "AttributeError")
            ELSE update_move_preview_markers(
                     updatePositionValues(s1, p[1] + delta[1], p[2] + delta[2],
                                          delta[1], delta[2]))

\* the branch of mouse_moved_event taken with neither
mouse_moved_plain(s, dpoint) ==
    IF s.state # "moving" THEN s
    ELSE IF s.editor_options.kind = "None" \/ s.move_from_dpoint = NoPoint
            \/ s.selection = NoSelection
    THEN Raise(s, "AttributeError")
    ELSE LET snapped_from_cursor == snap_to_grid_if_necessary(s.editor_options, s.move_from_dpoint)
             snapped_to_cursor == snap_to_grid_if_necessary(s.editor_options, dpoint)
             constrained_to_cursor == options_constrain_angle(s.editor_options,
                                          snapped_from_cursor, snapped_to_cursor)
             delta == VecSub(constrained_to_cursor, snapped_from_cursor)
             orig_pos == selection_position(s.selection)
             p == snap_to_grid_if_necessary(s.editor_options, orig_pos)
             s1 == [s EXCEPT !.move_operation =
                        [kind |-> "MouseMoveOperation", original_position |-> orig_pos,
                         snapped_position |-> p, snapped_cursor_delta |-> delta],
                      !.built = TRUE]
         IN IF ~s1.setupDock THEN Raise(s1, "AttributeError")
            ELSE update_move_preview_markers(
                     updatePositionValues(s1, p[1] + delta[1], p[2] + delta[2],
                                          delta[1], delta[2]))

\* MoveQuicklyToolPlugin.mouse_moved_event
mouse_moved_event(s, dpoint, buttons, prio) ==
    IF ~prio THEN s
    ELSE IF "Left" \in buttons THEN mouse_moved_drag(s, dpoint, buttons)
    ELSE IF "Shift" \in buttons THEN mouse_moved_shift(s)
    ELSE mouse_moved_plain(s, dpoint)

\* MoveQuicklyToolPlugin.mouse_button_pressed_event
mouse_button_pressed_event(s, dpoint, buttons, prio) ==
    [s EXCEPT !.drag_selection_from_dpoint = dpoint]

\* mouse_button_released_event finishing a drag only when is_dragging is set
mouse_button_released_event_is_dragging_only(s, dpoint, buttons, prio) ==
    IF s.is_dragging
    THEN [s EXCEPT !.is_dragging = FALSE, !.drag_selection_from_dpoint = NoPoint,
                   !.drag_selection_to_dpoint = NoPoint]
    ELSE IF s.state = "selecting" /\ s.selection # NoSelection /\ "Shift" \notin buttons
    THEN [set_state(s, "moving") EXCEPT !.move_from_dpoint = dpoint]
    ELSE s

\* MoveQuicklyToolPlugin.mouse_button_released_event
mouse_button_released_event(s, dpoint, buttons, prio) ==
    IF s.is_dragging
    THEN [s EXCEPT !.is_dragging = FALSE, !.drag_selection_from_dpoint = NoPoint,
                   !.drag_selection_to_dpoint = NoPoint]
    ELSE IF s.state = "selecting"
    THEN IF s.selection # NoSelection /\ "Shift" \notin buttons
         THEN [set_state(s, "moving") EXCEPT !.move_from_dpoint = dpoint]
         ELSE s
    ELSE IF s.state = "drag_selecting"
    THEN set_state([_clear_drag_selection_markers(s) EXCEPT
                        !.drag_selection_from_dpoint = NoPoint,
                        !.drag_selection_to_dpoint = NoPoint], "selecting")
    ELSE s

\* the SELECTING branch running the hit test on every click
mouse_click_selecting_always_selects(s, dpoint, buttons, choice) ==
    LET s1 == select_object_at(_clear_all_markers(s), dpoint, buttons, choice)
    IN IF s1.raised # "" THEN s1
       ELSE IF s1.selection # NoSelection /\ "Shift" \notin buttons
       THEN [set_state(s1, "moving") EXCEPT !.move_from_dpoint = dpoint]
       ELSE s1

\* the SELECTING branch with the second test as the else of the first: a
\* click that selected does not begin the move
mouse_click_selecting_else(s, dpoint, buttons, choice) ==
    IF s.selection = NoSelection \/ "Shift" \in buttons
    THEN select_object_at(_clear_all_markers(s), dpoint, buttons, choice)
    ELSE [set_state(s, "moving") EXCEPT !.move_from_dpoint = dpoint]

\* the left-button branch of mouse_click_event in state SELECTING
mouse_click_selecting(s, dpoint, buttons, choice) ==
    LET s1 == IF s.selection = NoSelection \/ "Shift" \in buttons
              THEN select_object_at(_clear_all_markers(s), dpoint, buttons, choice)
              ELSE s
    IN IF s1.raised # "" THEN s1
       ELSE IF s1.selection # NoSelection /\ "Shift" \notin buttons
       THEN [set_state(s1, "moving") EXCEPT !.move_from_dpoint = dpoint]
       ELSE s1

\* the left-button branch of mouse_click_event in state MOVING
mouse_click_moving(s, dpoint, buttons, choice, fail_at, deselects) ==
    IF "Shift" \in buttons
    THEN LET s1 == select_object_at(s, dpoint, buttons, choice) IN
         IF s1.raised # "" THEN s1
         ELSE set_state(_clear_all_markers(s1), "selecting")
    ELSE IF s.selection # NoSelection
    THEN commit_move(s, s.move_operation, fail_at, deselects)
    ELSE s

\* the right-button branch of mouse_click_event
mouse_click_right(s) ==
    LET s1 == [_clear_all_markers(s) EXCEPT !.object_selection = <<>>]
    IN set_state(set_selection(s1, NoSelection), "selecting")

\* MoveQuicklyToolPlugin.mouse_click_event
mouse_click_event(s, dpoint, buttons, prio, choice, fail_at, deselects) ==
    IF ~prio THEN s
    ELSE IF "Left" \in buttons
    THEN IF s.state = "selecting" THEN mouse_click_selecting(s, dpoint, buttons, choice)
         ELSE IF s.state = "moving"
         THEN mouse_click_moving(s, dpoint, buttons, choice, fail_at, deselects)
         ELSE s
    ELSE IF buttons = {"Right"} THEN mouse_click_right(s)
    ELSE s

\* the Tab case of key_event
key_event_tab(s) ==
    IF s.selection # NoSelection
    THEN IF ~s.setupDock THEN Raise(s, "AttributeError")
         ELSE _clear_move_preview_markers(
                  updatePositionValues(s, selection_position(s.selection)[1],
                                       selection_position(s.selection)[2], 0, 0))
    ELSE s

\* the Enter / Return case of key_event: commit_move is called without its
\* operation argument, which Python rejects before the body runs
key_event_enter(s) ==
    IF s.selection # NoSelection THEN Raise(s, "TypeError") ELSE s

\* key_event with the Shift test after the dispatch on the key
key_event_keys_first(s, key, buttons) ==
    IF key = "Tab" THEN key_event_tab(s)
    ELSE IF key \in {"Enter", "Return"} THEN key_event_enter(s)
    ELSE IF "Shift" \in buttons /\ s.state = "moving"
    THEN _clear_move_preview_markers(set_state(s, "selecting"))
    ELSE s

\* MoveQuicklyToolPlugin.key_event
key_event(s, key, buttons) ==
    IF "Shift" \in buttons /\ s.state = "moving"
    THEN _clear_move_preview_markers(set_state(s, "selecting"))
    ELSE IF key = "Tab" THEN key_event_tab(s)
    ELSE IF key \in {"Enter", "Return"} THEN key_event_enter(s)
    ELSE s

\* MoveQuicklyToolSetupWidget.keyPressEvent, for Enter / Return
keyPressEvent(s, x, y, dx, dy, fail_at, deselects) ==
    IF s.selection = NoSelection THEN Raise(s, "AttributeError")
    ELSE commit_move(s, [kind |-> "TextMoveOperation",
                         original_position |-> selection_position(s.selection),
                         x |-> x, y |-> y, dx |-> dx, dy |-> dy],
                     fail_at, deselects)

\* ---------------------------------------------------------------- the host
\* what the host can hold in its object selection, in the order it enumerates
\* them: a shape of the viewed cell, a top-level instance, a shape inside the
\* cell of such an instance
HostPathOrder ==
    [i \in 1..Len(ShapeOrder) |-> [path |-> <<>>, shape |-> ShapeOrder[i]]]
    \o [i \in 1..Len(InstOrder) |-> [path |-> <<InstOrder[i]>>, shape |-> ""]]
    \o [i \in 1..Len(InstOrder) |-> [path |-> <<InstOrder[i]>>, shape |-> "a"]]

RECURSIVE SubSeqs(_)
SubSeqs(q) ==
    IF q = <<>> THEN {<<>>}
    ELSE LET rest == SubSeqs(Tail(q)) IN rest \cup {<<Head(q)>> \o r : r \in rest}

HostSelections == SubSeqs(HostPathOrder)

LayerRefs == {<<[visible |-> TRUE, valid |-> TRUE, layer_index |-> 0]>>}

ViewConfigs ==
    [max_hier_levels : {1}, top_cell_hidden : {FALSE}, hidden_cells : {{}},
     layers : LayerRefs, move_angle_mode : {"ortho"},
     connect_angle_mode : {"any"}, grid : {1}]

ClickButtons == {{"Left"}, {"Left", "Shift"}, {"Right"}, {"Right", "Shift"}}
PressButtons == {{"Left"}, {"Left", "Shift"}}
Keys == {"Enter", "Return", "Tab", "Escape"}
KeyButtons == {{}, {"Shift"}}
\* what the user picks when the popup menu is shown (0: dismissed)
Choices == IF state = "selecting" /\ selection = NoSelection
           THEN 0..Cardinality(Transformees) ELSE {0}
\* the object whose host call raises during a commit (0: none)
FailAts == 0..Len(selection)
ClickFailAts == IF state = "moving" THEN FailAts ELSE {0}
ClickDeselects == IF state = "moving" THEN BOOLEAN ELSE {FALSE}
TypedDeltas == {<<0, 0>>, <<1, 0>>}

\* no call of constrain_angle made yet
NoCall == [mode |-> "", origin |-> <<0, 0>>, destination |-> <<0, 0>>, result |-> <<0, 0>>]

Init ==
    /\ state = "inactive"
    /\ selection = NoSelection
    /\ move_preview_markers = <<>>
    /\ drag_selection_markers = <<>>
    /\ editor_options = NoOptions
    /\ is_dragging = FALSE
    /\ drag_selection_from_dpoint = NoPoint
    /\ drag_selection_to_dpoint = NoPoint
    /\ move_from_dpoint = NoPoint
    /\ move_operation = NoOperation
    /\ setupDock = FALSE
    /\ object_selection = <<>>
    /\ pos = [t \in Transformees |-> <<0, 0>>]
    /\ open_transactions = 0
    /\ view \in ViewConfigs
    /\ host_active = FALSE
    /\ pointer_move = NoOperation
    /\ angle_call = NoCall

\* the handler ran on Self and left r: the tool and the layout
DeliverTool(r) ==
    /\ \A t \in Transformees : r.pos[t] \in Positions
    /\ state' = r.state
    /\ selection' = r.selection
    /\ move_preview_markers' = r.move_preview_markers
    /\ drag_selection_markers' = r.drag_selection_markers
    /\ editor_options' = r.editor_options
    /\ is_dragging' = r.is_dragging
    /\ drag_selection_from_dpoint' = r.drag_selection_from_dpoint
    /\ drag_selection_to_dpoint' = r.drag_selection_to_dpoint
    /\ move_from_dpoint' = r.move_from_dpoint
    /\ move_operation' = r.move_operation
    /\ setupDock' = r.setupDock
    /\ object_selection' = r.object_selection
    /\ pos' = r.pos
    /\ open_transactions' = r.open_transactions
    /\ pointer_move' = IF r.state # "moving" \/ state # "moving" THEN NoOperation
                       ELSE IF r.built THEN r.move_operation
                       ELSE pointer_move

\* the handler ran on Self and left r
Deliver(r) ==
    /\ DeliverTool(r)
    /\ UNCHANGED <<view, angle_call>>

Activated ==
    /\ ~host_active
    /\ host_active' = TRUE
    /\ \E view_is_visible \in BOOLEAN : Deliver(activated(Self, view_is_visible))

Deactivated ==
    /\ host_active
    /\ host_active' = FALSE
    /\ Deliver(deactivated(Self))

\* while another tool is active the user changes the host's object selection
HostSelects ==
    /\ ~host_active
    /\ \E q \in HostSelections : Deliver([Self EXCEPT !.object_selection = q])
    /\ UNCHANGED host_active

\* Mouse events reach the plugin with prio set while the host has it
\* activated and without prio otherwise.  (To the active plugin the host
\* offers an event it did not handle a second time without prio; every
\* handler leaves the state of the first pass unchanged in that second pass.)

\* cursor motion without the left button
MouseMoved ==
    /\ \E dpoint \in CursorPoints, buttons \in {{}, {"Shift"}} :
          Deliver(mouse_moved_event(Self, dpoint, buttons, host_active))
    /\ UNCHANGED host_active

\* cursor motion with the left button held
MouseDragged ==
    /\ \E dpoint \in DragPoints, buttons \in PressButtons :
          Deliver(mouse_moved_event(Self, dpoint, buttons, host_active))
    /\ UNCHANGED host_active

MousePressed ==
    /\ \E dpoint \in PressPoints, buttons \in PressButtons :
          Deliver(mouse_button_pressed_event(Self, dpoint, buttons, host_active))
    /\ UNCHANGED host_active

MouseReleased ==
    /\ \E dpoint \in CursorPoints, buttons \in PressButtons :
          Deliver(mouse_button_released_event(Self, dpoint, buttons, host_active))
    /\ UNCHANGED host_active

MouseClicked ==
    /\ \E dpoint \in CursorPoints, buttons \in ClickButtons,
          choice \in Choices, fail_at \in ClickFailAts, deselects \in ClickDeselects :
          Deliver(mouse_click_event(Self, dpoint, buttons, host_active,
                                    choice, fail_at, deselects))
    /\ UNCHANGED host_active

KeyPressed ==
    /\ host_active
    /\ \E key \in Keys, buttons \in KeyButtons : Deliver(key_event(Self, key, buttons))
    /\ UNCHANGED host_active

\* Enter / Return typed in the dock's panel
PanelEnter ==
    /\ host_active /\ setupDock
    /\ \E target \in Positions, d \in TypedDeltas, fail_at \in FailAts, deselects \in BOOLEAN :
          Deliver(keyPressEvent(Self, target[1], target[2], d[1], d[2], fail_at, deselects))
    /\ UNCHANGED host_active

Next ==
    \/ Activated
    \/ Deactivated
    \/ HostSelects
    \/ MouseMoved
    \/ MouseDragged
    \/ MousePressed
    \/ MouseReleased
    \/ MouseClicked
    \/ KeyPressed
    \/ PanelEnter

Spec == Init /\ [][Next]_vars

\* ================================================================ claims
\* the transformees a selection refers to
SelTransformees(sel) == {TransformeeOf(sel[i]) : i \in DOMAIN sel}
\* the TypedMoves the panel can commit
TypedOperations ==
    IF selection = NoSelection THEN {}
    ELSE {[kind |-> "TextMoveOperation",
           original_position |-> selection_position(selection),
           x |-> target[1], y |-> target[2], dx |-> d[1], dy |-> d[2]] :
          target \in Positions, d \in TypedDeltas}
\* a commit_move call opened the host transaction at most once and closed it
\* as often as it opened it
ClosesWhatItOpens(r) ==
    r.n_transaction <= 1 /\ r.n_commit = r.n_transaction /\ r.open_transactions = 0

\* C1: every commit_move that opens the host transaction closes it exactly
\* once, also when a translation raises (fail_at > 0), whichever operation is
\* committed; and in every reachable state no host transaction is open.
C1_TransactionClosed ==
    /\ open_transactions = 0
    /\ \A fail_at \in FailAts, deselects \in BOOLEAN :
          /\ ClosesWhatItOpens(commit_move(Self, move_operation, fail_at, deselects))
          /\ \A op \in TypedOperations :
                ClosesWhatItOpens(commit_move(Self, op, fail_at, deselects))

\* C1 witness: a move is in progress on two objects, and the commit whose
\* second translation raises has opened one transaction and closed it
C1_Witness ==
    /\ state = "moving" /\ Len(selection) >= 2 /\ move_operation.kind # "None"
    /\ LET r == commit_move(Self, move_operation, 2, TRUE)
       IN r.raised = "RuntimeError" /\ r.n_transaction = 1 /\ r.n_commit = 1
          /\ r.open_transactions = 0 /\ r.pos # pos

\* C2: from Selecting with a selection, a left click without modifier enters
\* Moving, and after a drag motion the Enter key commits the move: one
\* transaction opened and closed, state Selecting, no error.
C2_EnterKeyCommits ==
    (host_active /\ state = "selecting" /\ selection # NoSelection
        /\ editor_options.kind # "None") =>
    \A p \in CursorPoints, q \in CursorPoints, key \in {"Enter", "Return"} :
        LET r1 == mouse_click_event(Self, p, {"Left"}, TRUE, 0, 0, FALSE)
            r2 == mouse_moved_event(Fresh(r1), q, {}, TRUE)
            r3 == key_event(Fresh(r2), key, {})
        IN /\ r1.state = "moving"
           /\ r3.raised = "" /\ r3.n_transaction = 1 /\ r3.n_commit = 1
           /\ r3.state = "selecting"

\* a commit of op that no translation interrupts translates every transformee
\* of the selection by the effective delta of op once, and nothing else
TranslatesEachOnce(op) ==
    \A deselects \in BOOLEAN :
        LET r == commit_move(Self, op, 0, deselects) IN
        \A t \in Transformees :
            IF t \in SelTransformees(selection)
            THEN r.n_transform[t] = 1 /\ r.pos[t] = VecAdd(pos[t], effective_delta(op))
            ELSE r.n_transform[t] = 0 /\ r.pos[t] = pos[t]

\* C3: a commit translates every transformee of the selection by the
\* operation's effective delta exactly once, for every selection the tool can
\* hold.
C3_EachTransformeeOnce ==
    selection # NoSelection =>
        /\ \A op \in TypedOperations : TranslatesEachOnce(op)
        /\ move_operation.kind # "None" => TranslatesEachOnce(move_operation)

\* the transformees the host's object selection refers to
HostTransformees(paths) ==
    {IF Len(paths[i].path) = 0 THEN paths[i].shape ELSE paths[i].path[1] :
        i \in DOMAIN paths}
\* lower left corner of the boxes the transformees ts have in layout r
AnchorIn(r, ts) ==
    <<CHOOSE x \in {r.pos[t][1] : t \in ts} : \A u \in ts : x <= r.pos[u][1],
      CHOOSE y \in {r.pos[t][2] : t \in ts} : \A u \in ts : y <= r.pos[u][2]>>
\* what C4 says of the record r a commit left
Rederived(r) ==
    /\ r.state = "selecting"
    /\ {t \in Transformees : r.n_transform[t] > 0} \subseteq HostTransformees(r.object_selection)
    /\ r.object_selection # <<>> => r.selection # NoSelection
    /\ HostTransformees(r.object_selection) = SelTransformees(r.selection)
    /\ r.selection # NoSelection =>
          selection_position(r.selection) = AnchorIn(r, SelTransformees(r.selection))

\* C4: after a commit that opened its transaction (whether or not a
\* translation raised) the state is Selecting, the host's object selection
\* holds the moved objects, and the tool's selection is the one derived from
\* the host's object selection, anchored at the post-move anchor.
C4_SelectionRederived ==
    \A fail_at \in FailAts, deselects \in BOOLEAN :
        /\ LET r == commit_move(Self, move_operation, fail_at, deselects)
           IN r.n_transaction = 1 => Rederived(r)
        /\ \A op \in TypedOperations :
              LET r == commit_move(Self, op, fail_at, deselects)
              IN r.n_transaction = 1 => Rederived(r)

\* C4 witness: a move by a non-zero delta is in progress, and its commit, during
\* which the host drops its selection, leaves a selection at another anchor
C4_Witness ==
    /\ state = "moving" /\ selection # NoSelection /\ move_operation.kind # "None"
    /\ effective_delta(move_operation) # <<0, 0>>
    /\ LET r == commit_move(Self, move_operation, 0, TRUE)
       IN /\ r.n_transaction = 1 /\ r.selection # NoSelection
          /\ selection_position(r.selection) # selection_position(selection)
          /\ \E t \in Insts : r.n_transform[t] > 0

\* C5: a key event with Shift held in Moving cancels the move whatever the
\* key: state Selecting, no move preview marker, no transaction, no geometry
\* changed, no error.
C5_ShiftKeyCancels ==
    state = "moving" =>
    \A key \in Keys :
        LET r == key_event(Self, key, {"Shift"})
        IN r.state = "selecting" /\ r.move_preview_markers = <<>>
           /\ r.n_transaction = 0 /\ r.pos = pos /\ r.raised = ""

\* C5 witness: a move with a live preview, which Shift+Enter cancels
C5_Witness ==
    /\ host_active /\ state = "moving" /\ move_preview_markers # <<>>
    /\ key_event(Self, "Enter", {"Shift"}).state = "selecting"
    /\ key_event(Self, "Enter", {"Shift"}).move_preview_markers = <<>>

\* C6: in Moving, a priority mouse-moved event with Shift held and no button
\* cancels the move: state Selecting, no move preview marker.
C6_ShiftMotionCancels ==
    (host_active /\ state = "moving") =>
    \A dpoint \in CursorPoints :
        LET r == mouse_moved_event(Self, dpoint, {"Shift"}, TRUE)
        IN r.state = "selecting" /\ r.move_preview_markers = <<>>

\* what C7 says of the record r a right-click left
Cleared(r) ==
    /\ r.selection = NoSelection /\ r.object_selection = <<>>
    /\ r.move_preview_markers = <<>> /\ r.drag_selection_markers = <<>>
    /\ r.state = "selecting"

\* C7: a priority right-click, whatever modifier key is held with it, in any
\* tool state leaves no selection, no host selection, no marker, and state
\* Selecting.
C7_RightClickClears ==
    host_active =>
    \A dpoint \in CursorPoints, buttons \in {{"Right"}, {"Right", "Shift"}} :
        Cleared(mouse_click_event(Self, dpoint, buttons, TRUE, 0, 0, FALSE))

\* the part of C7 the code keeps: the right-click with no modifier key held
PlainRightClickClears ==
    host_active =>
    \A dpoint \in CursorPoints :
        Cleared(mouse_click_event(Self, dpoint, {"Right"}, TRUE, 0, 0, FALSE))

\* C8: in Selecting with a selection, a priority left click without Shift
\* begins a move: state Moving, the click point recorded as the start cursor,
\* no hit-test run, selection and host selection unchanged.
C8_ClickBeginsMove ==
    (host_active /\ state = "selecting" /\ selection # NoSelection) =>
    \A dpoint \in CursorPoints, choice \in 0..Cardinality(Transformees) :
        LET r == mouse_click_event(Self, dpoint, {"Left"}, TRUE, choice, 0, FALSE)
        IN /\ r.state = "moving" /\ r.move_from_dpoint = dpoint
           /\ r.n_hit_tests = 0 /\ r.selection = selection
           /\ r.object_selection = object_selection /\ r.raised = ""

\* C8 witness: Selecting with a selection and another start cursor recorded
\* from an earlier move; the click records its own point
C8_Witness ==
    /\ host_active /\ state = "selecting" /\ selection # NoSelection
    /\ move_from_dpoint = <<1, 1>>
    /\ LET r == mouse_click_event(Self, <<2, 1>>, {"Left"}, TRUE, 0, 0, FALSE)
       IN r.state = "moving" /\ r.move_from_dpoint = <<2, 1>>

\* C9 as claimed: in Selecting with no selection a priority left click runs
\* select-at-point and leaves the state Selecting.
C9_ClickSelectsStaysSelecting ==
    (host_active /\ state = "selecting" /\ selection = NoSelection) =>
    \A dpoint \in CursorPoints, buttons \in {{"Left"}, {"Left", "Shift"}},
       choice \in 0..Cardinality(Transformees) :
        LET r == mouse_click_event(Self, dpoint, buttons, TRUE, choice, 0, FALSE)
        IN r.n_hit_tests = 1 /\ r.state = "selecting"

\* C9 as amended: in Selecting with no selection a priority left click calls
\* select-at-point once; the state after the event is Moving, with the click
\* point as start cursor, when the click was made without Shift and left a
\* selection, and Selecting otherwise.
C9_ClickSelectsThenMoves ==
    (host_active /\ state = "selecting" /\ selection = NoSelection) =>
    \A dpoint \in CursorPoints, buttons \in {{"Left"}, {"Left", "Shift"}},
       choice \in 0..Cardinality(Transformees) :
        LET r == mouse_click_event(Self, dpoint, buttons, TRUE, choice, 0, FALSE)
        IN /\ r.n_hit_tests = 1
           /\ IF "Shift" \notin buttons /\ r.selection # NoSelection
              THEN r.state = "moving" /\ r.move_from_dpoint = dpoint
              ELSE r.state = "selecting"

\* C9 witness: Selecting with no selection; one click finds an object and
\* another finds none
C9_Witness ==
    /\ host_active /\ state = "selecting" /\ selection = NoSelection
    /\ \E dpoint \in CursorPoints :
          LET r == mouse_click_event(Self, dpoint, {"Left"}, TRUE, 1, 0, FALSE)
          IN r.selection # NoSelection /\ r.state = "moving"
    /\ \E dpoint \in CursorPoints :
          LET r == mouse_click_event(Self, dpoint, {"Left"}, TRUE, 1, 0, FALSE)
          IN r.selection = NoSelection /\ r.state = "selecting" /\ r.n_hit_tests = 1

\* C10: in Moving with a selection, a priority left click without Shift
\* commits the move: the state becomes Selecting and the selection is
\* translated, inside one transaction, by the effective delta of the
\* PointerMove the most recent drag motion of this move built (no drag motion
\* in this move: there is no such PointerMove, nothing is translated).
C10_ClickCommitsThisMove ==
    (host_active /\ state = "moving" /\ selection # NoSelection) =>
    \A dpoint \in CursorPoints, deselects \in BOOLEAN :
        LET r == mouse_click_event(Self, dpoint, {"Left"}, TRUE, 0, 0, deselects)
        IN /\ r.state = "selecting"
           /\ IF pointer_move.kind = "None" THEN r.pos = pos /\ r.n_transaction = 0
              ELSE /\ r.n_transaction = 1 /\ r.n_commit = 1
                   /\ \A t \in Transformees :
                         r.pos[t] = IF t \in SelTransformees(selection)
                                    THEN VecAdd(pos[t], effective_delta(pointer_move))
                                    ELSE pos[t]

\* what a hit-test of Self with this search box and constraint matches
Matched(search_box, constraint) ==
    HostTransformees(ScanTopCell(Self, search_box, constraint,
                                 [sel |-> <<>>, added |-> {}]).sel)

\* r holds, without error, the objects selected before and none but those and
\* the matched ones, none of the former twice
IsUnionWith(r, matched) ==
    /\ r.raised = ""
    /\ SelTransformees(selection) \subseteq SelTransformees(r.selection)
    /\ SelTransformees(r.selection) \subseteq SelTransformees(selection) \cup matched
    /\ Cardinality(SelTransformees(selection)) = Len(selection) =>
          Cardinality(SelTransformees(r.selection)) = Len(r.selection)

\* C11: an additive hit-test (Shift-click in Selecting or Moving, Shift-drag
\* after a press) completes without error and leaves the union of the objects
\* selected before and the newly matched ones, none dropped, none twice.
C11_AdditiveUnion ==
    /\ (host_active /\ state \in {"selecting", "moving"}) =>
          \A dpoint \in CursorPoints, choice \in 0..Cardinality(Transformees) :
              IsUnionWith(mouse_click_event(Self, dpoint, {"Left", "Shift"}, TRUE, choice, 0, FALSE),
                          Matched(DBox(dpoint, dpoint), "search_box_overlaps_object"))
    /\ (host_active /\ drag_selection_from_dpoint # NoPoint) =>
          \A dpoint \in DragPoints :
              IsUnionWith(mouse_moved_event(Self, dpoint, {"Left", "Shift"}, TRUE),
                          Matched(DBox(drag_selection_from_dpoint, dpoint),
                                  "search_box_encloses_object"))

\* the objects of the viewed cell that lie under the point
UnderPoint(dpoint) ==
    {t \in Transformees : BoxOverlaps(BoxAt(pos[t]), DBox(dpoint, dpoint))}

\* the object a select-at-point left selected, in the tool and in the host
OnlySelected(r, t) ==
    /\ Len(r.selection) = 1 /\ TransformeeOf(r.selection[1]) = t
    /\ Len(r.object_selection) = 1 /\ HostTransformees(r.object_selection) = {t}

\* C12: non-additive select-at-point with two or more candidates under the
\* point: a dismissed menu leaves the tool's and the host's selection empty,
\* a pick leaves exactly the picked candidate, and every candidate can be
\* picked; with one candidate that one is selected whatever the menu would give.
C12_Disambiguation ==
    host_active =>
    \A dpoint \in CursorPoints :
        LET n == Cardinality(UnderPoint(dpoint))
            r(choice) == select_object_at(Self, dpoint, {}, choice)
        IN /\ n >= 2 =>
                /\ r(0).selection = NoSelection /\ r(0).object_selection = <<>>
                /\ \A k \in 1..n : \E t \in UnderPoint(dpoint) : OnlySelected(r(k), t)
                /\ \A t \in UnderPoint(dpoint) : \E k \in 1..n : OnlySelected(r(k), t)
           /\ n = 1 =>
                \A choice \in 0..Cardinality(Transformees) :
                    \E t \in UnderPoint(dpoint) : OnlySelected(r(choice), t)

\* C12 witness: Selecting with nothing selected and two objects under the
\* click, where a dismissed menu selects nothing and the second entry selects
\* the shape; and a click with one object under it
C12_Witness ==
    /\ host_active /\ state = "selecting" /\ selection = NoSelection
    /\ \E dpoint \in CursorPoints :
          /\ Cardinality(UnderPoint(dpoint)) = 2
          /\ mouse_click_event(Self, dpoint, {"Left"}, TRUE, 0, 0, FALSE).selection = NoSelection
          /\ OnlySelected(mouse_click_event(Self, dpoint, {"Left"}, TRUE, 2, 0, FALSE), "s1")

\* C13: non-additive select-in-rectangle selects only objects whose bounding
\* box is fully inside the search rectangle (an object straddling its
\* boundary is never selected), while select-at-point selects an object whose
\* box the point touches, which is never inside the point's box.
C13_RectangleEncloses ==
    /\ \A from \in PressPoints, to \in DragPoints :
          LET r == select_objects_enclosed_by(Self, DBox(from, to), "Replace")
          IN /\ r.raised = ""
             /\ \A t \in HostTransformees(r.object_selection) :
                   BoxInside(BoxAt(pos[t]), DBox(from, to))
             /\ SelTransformees(r.selection) = HostTransformees(r.object_selection)
    /\ (host_active /\ drag_selection_from_dpoint # NoPoint) =>
          \A to \in DragPoints :
              LET r == mouse_moved_event(Self, to, {"Left"}, TRUE)
              IN \A t \in SelTransformees(r.selection) :
                    BoxInside(BoxAt(pos[t]), DBox(drag_selection_from_dpoint, to))
    /\ \A dpoint \in CursorPoints, choice \in 0..Cardinality(Transformees) :
          LET r == select_object_at(Self, dpoint, {}, choice)
          IN \A t \in SelTransformees(r.selection) :
                /\ BoxTouches(BoxAt(pos[t]), DBox(dpoint, dpoint))
                /\ ~BoxInside(BoxAt(pos[t]), DBox(dpoint, dpoint))

\* C13 witness: a drag over a rectangle that encloses one object and that
\* another straddles; the drag motion selects the first one only
C13_Witness ==
    /\ host_active /\ drag_selection_from_dpoint = <<0, 0>>
    /\ pos["i1"] # pos["s1"]
    /\ LET r == mouse_moved_event(Self, <<2, 2>>, {"Left"}, TRUE)
       IN /\ Cardinality(SelTransformees(r.selection)) = 1
          /\ \E t \in Transformees :
                /\ t \notin SelTransformees(r.selection)
                /\ BoxOverlaps(BoxAt(pos[t]), <<0, 0, 2, 2>>)

\* C14: a drag gesture started in Selecting (press, priority motion with the
\* left button held, release) is in DragSelecting after the motion and in
\* Selecting after the release, which leaves no drag-selection marker and no
\* recorded drag point; no transaction is opened and no object is moved.
C14_DragGesture ==
    (host_active /\ state = "selecting") =>
    \A from \in PressPoints, to \in DragPoints, up \in CursorPoints \cup DragPoints,
       buttons \in PressButtons :
        LET r1 == mouse_button_pressed_event(Self, from, buttons, TRUE)
            r2 == mouse_moved_event(Fresh(r1), to, buttons, TRUE)
            r3 == mouse_button_released_event(Fresh(r2), up, buttons, TRUE)
        IN /\ r1.state = "selecting" /\ r1.drag_selection_from_dpoint = from
           /\ r2.state = "drag_selecting"
           /\ r3.state = "selecting"
           /\ r3.drag_selection_markers = <<>>
           /\ r3.drag_selection_from_dpoint = NoPoint
           /\ r3.drag_selection_to_dpoint = NoPoint
           /\ r2.n_transaction = 0 /\ r3.n_transaction = 0
           /\ r3.pos = pos /\ r3.open_transactions = 0

\* C14 witness: Selecting; the drag motion shows the rectangle and selects an
\* object, the release ends in Selecting with that selection and no marker
C14_Witness ==
    /\ host_active /\ state = "selecting" /\ selection = NoSelection
    /\ LET r1 == mouse_button_pressed_event(Self, <<0, 0>>, {"Left"}, TRUE)
           r2 == mouse_moved_event(Fresh(r1), <<2, 2>>, {"Left"}, TRUE)
           r3 == mouse_button_released_event(Fresh(r2), <<2, 2>>, {"Left"}, TRUE)
       IN /\ r2.state = "drag_selecting" /\ r2.drag_selection_markers = <<(<<0, 0, 2, 2>>)>>
          /\ r2.selection # NoSelection
          /\ r3.state = "selecting" /\ r3.drag_selection_markers = <<>>
          /\ r3.selection = r2.selection

\* the tool r is in Selecting with the selection the host's object selection
\* gives: an object for each host path, none when the host has none selected
InitializedFromHost(r) ==
    /\ r.state = "selecting"
    /\ Len(r.selection) = Len(object_selection)
    /\ \A i \in DOMAIN r.selection :
          /\ r.selection[i].path = object_selection[i]
          /\ HostTransformees(<<object_selection[i]>>) = {TransformeeOf(r.selection[i])}
          /\ r.selection[i].bbox = BoxAt(pos[TransformeeOf(r.selection[i])])
    /\ object_selection = <<>> => r.selection = NoSelection
    /\ r.object_selection = object_selection

\* C15 as claimed: every activate event received in Inactive puts the tool in
\* Selecting with its selection initialized from the host's object selection.
C15_ActivateSelects ==
    state = "inactive" =>
        \A view_is_visible \in BOOLEAN : InitializedFromHost(activated(Self, view_is_visible))

\* C15 as amended: an activate event received in Inactive while the view's
\* widget is visible puts the tool in Selecting with its selection initialized
\* from the host's object selection; while the widget is not visible the
\* event changes nothing.
C15_ActivateVisibleSelects ==
    state = "inactive" =>
        /\ InitializedFromHost(activated(Self, TRUE))
        /\ activated(Self, FALSE) = Self

\* C15 witness: Inactive, left by an earlier session with an object moved, and
\* the host holding two selected objects which activation takes over
C15_Witness ==
    /\ state = "inactive" /\ ~host_active /\ Len(object_selection) = 2
    /\ \E t \in Transformees : pos[t] # <<0, 0>>
    /\ Len(activated(Self, TRUE).selection) = 2
    /\ activated(Self, TRUE).state = "selecting"

\* C16: a deactivate event in any state leaves the tool Inactive with no
\* selection, no move preview marker and no drag-selection marker.
C16_DeactivateClears ==
    LET r == deactivated(Self)
    IN /\ r.state = "inactive" /\ r.selection = NoSelection
       /\ r.move_preview_markers = <<>> /\ r.drag_selection_markers = <<>>
       /\ r.raised = ""

\* C16 witness: the tool is deactivated in the middle of a move with a live
\* preview
C16_Witness ==
    /\ host_active /\ state = "moving" /\ selection # NoSelection
    /\ move_preview_markers # <<>>
    /\ deactivated(Self).state = "inactive"
    /\ deactivated(Self).move_preview_markers = <<>>

\* operations a caller can hand to commit_move while there is no selection
OperationsWithoutSelection ==
    {NoOperation, move_operation}
    \cup {[kind |-> "TextMoveOperation", original_position |-> <<0, 0>>,
           x |-> target[1], y |-> target[2], dx |-> d[1], dy |-> d[2]] :
            target \in Positions, d \in TypedDeltas}

\* r is Self with the markers cleared and the state Selecting, nothing else
\* changed: no transaction, no translation, same selection, same layout
OnlyReset(r) ==
    r = [Self EXCEPT !.move_preview_markers = <<>>, !.drag_selection_markers = <<>>,
                     !.state = "selecting"]

\* C17: commit_move with the selection absent or the operation absent opens
\* no transaction, moves nothing and keeps the selection; it only clears the
\* markers and sets the state to Selecting.
C17_CommitWithoutWork ==
    \A deselects \in BOOLEAN, fail_at \in 0..1 :
        /\ OnlyReset(commit_move(Self, NoOperation, fail_at, deselects))
        /\ selection = NoSelection =>
              \A op \in OperationsWithoutSelection :
                  OnlyReset(commit_move(Self, op, fail_at, deselects))

\* C17 witness: a drag rectangle is shown, nothing is selected, and the
\* operation of an earlier move is still stored; commit_move with it only resets
C17_Witness ==
    /\ selection = NoSelection /\ move_operation.kind # "None"
    /\ state = "drag_selecting" /\ drag_selection_markers # <<>>
    /\ commit_move(Self, move_operation, 0, FALSE).state = "selecting"
    /\ commit_move(Self, move_operation, 0, FALSE).drag_selection_markers = <<>>
    /\ commit_move(Self, move_operation, 0, FALSE).pos = pos

\* -------------------------------------------- well-formed mouse events
\* cursor motion with the left button held reaches the plugin only after the
\* press of that button did
MouseDraggedAfterPress ==
    /\ drag_selection_from_dpoint # NoPoint
    /\ MouseDragged

NextPressed ==
    \/ Activated
    \/ Deactivated
    \/ HostSelects
    \/ MouseMoved
    \/ MouseDraggedAfterPress
    \/ MousePressed
    \/ MouseReleased
    \/ MouseClicked
    \/ KeyPressed
    \/ PanelEnter

SpecPressed == Init /\ [][NextPressed]_vars

\* C18: in every state reached through well-formed mouse events a move
\* preview marker exists only in Moving, a drag-selection marker only in
\* DragSelecting, and there is at most one marker of each kind.
C18_MarkerInvariant ==
    /\ move_preview_markers # <<>> => state = "moving"
    /\ drag_selection_markers # <<>> => state = "drag_selecting"
    /\ Len(move_preview_markers) <= 1
    /\ Len(drag_selection_markers) <= 1

\* C18 witness: a drag that interrupted a move: the preview of the move is
\* gone and the one rectangle of the drag is shown
C18_Witness ==
    /\ state = "drag_selecting" /\ Len(drag_selection_markers) = 1
    /\ move_preview_markers = <<>>
    /\ move_operation.kind # "None" /\ move_from_dpoint # NoPoint

\* C19: a commit, a Shift cancel, a right-click and a deactivate each leave no
\* stored MoveOperation, so a click that enters Moving followed directly by a
\* click, with no motion in between, opens no transaction and moves nothing.
C19_OperationDiscarded ==
    /\ (host_active /\ state = "moving" /\ selection # NoSelection) =>
          /\ \A dpoint \in CursorPoints, deselects \in BOOLEAN :
                mouse_click_event(Self, dpoint, {"Left"}, TRUE, 0, 0, deselects).move_operation
                    = NoOperation
          /\ \A key \in Keys : key_event(Self, key, {"Shift"}).move_operation = NoOperation
    /\ host_active =>
          /\ \A dpoint \in CursorPoints :
                mouse_click_event(Self, dpoint, {"Right"}, TRUE, 0, 0, FALSE).move_operation
                    = NoOperation
          /\ deactivated(Self).move_operation = NoOperation
    /\ (host_active /\ state = "selecting" /\ selection # NoSelection) =>
          \A p \in CursorPoints, q \in CursorPoints, deselects \in BOOLEAN :
              LET r1 == mouse_click_event(Self, p, {"Left"}, TRUE, 0, 0, FALSE)
                  r2 == mouse_click_event(Fresh(r1), q, {"Left"}, TRUE, 0, 0, deselects)
              IN r2.n_transaction = 0 /\ r2.pos = pos /\ r2.state = "selecting"

\* ------------------------------------------- the angle constraint on its own
Coords == (0 - MaxCoord)..MaxCoord
Points == Coords \X Coords
\* the modes of AngleMode the model covers
AngleModes == {"any", "diagonal", "ortho"}

\* a call of AngleMode.constrain_angle, a pure function: one call from the
\* initial state for every input (in DIAGONAL mode with dx + dy even: there
\* the projection onto a diagonal has integer coordinates)
ConstrainAngle ==
    /\ angle_call = NoCall
    /\ \E mode \in AngleModes, origin \in Points, destination \in Points :
          /\ mode = "diagonal" =>
                (destination[1] - origin[1] + destination[2] - origin[2]) % 2 = 0
          /\ angle_call' = [mode |-> mode, origin |-> origin, destination |-> destination,
                         result |-> constrain_angle(mode, origin, destination)]
    /\ UNCHANGED toolvars

NextAngle == ConstrainAngle

SpecAngle == Init /\ [][NextAngle]_vars

\* C20: for every origin and destination the MANHATTAN constraint returns a
\* point with the X of the origin and the Y of the destination, or with the Y
\* of the origin and the X of the destination.
C20_OrthogonalKeepsOneAxis ==
    angle_call.mode = "ortho" =>
        LET o == angle_call.origin
            d == angle_call.destination
            r == angle_call.result
        IN \/ r[1] = o[1] /\ r[2] = d[2]
           \/ r[2] = o[2] /\ r[1] = d[1]

\* C20 witness: a call in MANHATTAN mode whose destination differs from the
\* origin in both coordinates, by the same amount, so that the result is
\* neither of the two
C20_Witness ==
    /\ angle_call.mode = "ortho"
    /\ angle_call.destination[1] - angle_call.origin[1] = 2
    /\ angle_call.destination[2] - angle_call.origin[2] = -2
    /\ angle_call.result # angle_call.destination
    /\ angle_call.result # angle_call.origin

\* the latest call was made in MANHATTAN mode with |dx| = |dy|, both non-zero
IsOrthogonalTie ==
    /\ angle_call.mode = "ortho"
    /\ Abs(angle_call.destination[1] - angle_call.origin[1])
         = Abs(angle_call.destination[2] - angle_call.origin[2])
    /\ angle_call.destination[1] # angle_call.origin[1]

\* C21 as claimed: in MANHATTAN mode a tie |dx| = |dy| # 0 goes to the
\* horizontal: the result is (destination.x, origin.y).
C21_TieHorizontal ==
    IsOrthogonalTie => angle_call.result = <<angle_call.destination[1], angle_call.origin[2]>>

\* C21 as amended: in MANHATTAN mode a tie |dx| = |dy| # 0 goes to the
\* vertical: the result is (origin.x, destination.y).
C21_TieVertical ==
    IsOrthogonalTie => angle_call.result = <<angle_call.origin[1], angle_call.destination[2]>>

\* C21 witness: a tie towards the lower right
C21_Witness ==
    /\ IsOrthogonalTie
    /\ angle_call.destination[1] > angle_call.origin[1]
    /\ angle_call.destination[2] < angle_call.origin[2]
    /\ angle_call.result[1] = angle_call.origin[1]

\* C22: for every origin and destination the DIAGONAL constraint returns a
\* point whose displacement v from the origin lies along one of the eight
\* directions that is nearest to the raw displacement d, is the orthogonal
\* projection of d onto that direction, and is no longer than d.
C22_DiagonalProjects ==
    angle_call.mode = "diagonal" =>
        LET d == VecSub(angle_call.destination, angle_call.origin)
            v == VecSub(angle_call.result, angle_call.origin)
        IN /\ \E u \in Range(Candidates) :
                 /\ \A w \in Range(Candidates) :
                       SignedSquare(Dot(w, d)) * Dot(u, u) <= SignedSquare(Dot(u, d)) * Dot(w, w)
                 /\ v[1] * u[2] = v[2] * u[1] /\ Dot(v, u) >= 0
                 /\ Dot(VecSub(d, v), u) = 0
           /\ Dot(v, v) <= Dot(d, d)
           /\ (v = <<0, 0>>) <=> (d = <<0, 0>>)

\* C22 witness: a displacement of (4, 2), nearest to the diagonal, projected
\* to (3, 3)
C22_Witness ==
    /\ angle_call.mode = "diagonal"
    /\ VecSub(angle_call.destination, angle_call.origin) = <<4, 2>>
    /\ VecSub(angle_call.result, angle_call.origin) = <<3, 3>>

\* grids of the editor options a drag motion is computed under
Grids == {1, 2}

\* Self with the editor options set to this move angle mode and this grid
WithOptions(mode, grid) ==
    [Self EXCEPT !.editor_options.edit_move_angle_mode = mode,
                 !.editor_options.grid = grid]

\* C23: the PointerMove a drag motion in Moving builds has the effective delta
\* (snapped anchor - original anchor) + (constrain(snap(start cursor),
\* snap(cursor)) - snap(start cursor)); with the cursor at the start point and
\* the anchor on the grid it is the zero vector, under every angle mode.
C23_PointerMoveDelta ==
    (host_active /\ state = "moving" /\ selection # NoSelection
        /\ editor_options.kind # "None") =>
    \A mode \in AngleModes, grid \in Grids, dpoint \in CursorPoints \cup {move_from_dpoint} :
        LET s == WithOptions(mode, grid)
            opts == s.editor_options
            r == mouse_moved_event(s, dpoint, {}, TRUE)
            anchor == selection_position(selection)
            start == snap_to_grid_if_necessary(opts, move_from_dpoint)
            cursor == snap_to_grid_if_necessary(opts, dpoint)
        IN /\ r.raised = "" /\ r.move_operation.kind = "MouseMoveOperation"
           /\ effective_delta(r.move_operation) =
                 VecAdd(VecSub(snap_to_grid_if_necessary(opts, anchor), anchor),
                        VecSub(constrain_angle(mode, start, cursor), start))
           /\ (dpoint = move_from_dpoint /\ snap_to_grid_if_necessary(opts, anchor) = anchor) =>
                 effective_delta(r.move_operation) = <<0, 0>>

\* C23 witness: a move of a selection anchored off the grid of 2, started at
\* a cursor off that grid: the motion to another cursor point gives a delta
\* that is the correction of the anchor, the motion to the start point on the grid of 1 none
C23_Witness ==
    /\ host_active /\ state = "moving" /\ selection # NoSelection
    /\ editor_options.kind # "None"
    /\ selection_position(selection) = <<1, 0>> /\ move_from_dpoint = <<1, 1>>
    /\ effective_delta(mouse_moved_event(WithOptions("ortho", 2), <<2, 1>>, {}, TRUE).move_operation)
          = <<1, 0>>
    /\ effective_delta(mouse_moved_event(WithOptions("diagonal", 1), <<1, 1>>, {}, TRUE).move_operation)
          = <<0, 0>>

\* values typed into the X, Y and the dX, dY fields of the panel
TypedTargets == Positions \cup {<<3, 1>>}
TypedIncrements == TypedDeltas \cup {<<1, -2>>}

\* C24: the effective delta of a TypedMove is (target - original anchor) +
\* (dX, dY), whatever the angle mode and the grid are; with the target at the
\* anchor and dX = dY = 0 it is the zero vector.
C24_TypedMoveDelta ==
    (host_active /\ selection # NoSelection /\ editor_options.kind # "None") =>
    \A target \in TypedTargets \cup {selection_position(selection)}, d \in TypedIncrements,
       mode \in AngleModes, grid \in Grids :
        LET anchor == selection_position(selection)
            r == keyPressEvent(WithOptions(mode, grid), target[1], target[2], d[1], d[2], 0, FALSE)
        IN /\ r.n_transaction = 1
           /\ r.delta = <<target[1] - anchor[1] + d[1], target[2] - anchor[2] + d[2]>>
           /\ (target = anchor /\ d = <<0, 0>>) => r.delta = <<0, 0>>

\* C24 witness: a selection anchored at (1, 0); the typed target (3, 1) with
\* increments (1, -2), under MANHATTAN and a grid of 2, moves by (3, -1)
C24_Witness ==
    /\ host_active /\ selection # NoSelection /\ editor_options.kind # "None"
    /\ selection_position(selection) = <<1, 0>>
    /\ keyPressEvent(WithOptions("ortho", 2), 3, 1, 1, -2, 0, FALSE).delta = <<3, -1>>
    /\ keyPressEvent(WithOptions("ortho", 2), 1, 0, 0, 0, 0, FALSE).delta = <<0, 0>>

\* the rearrangements of the members of the selection
MemberOrders(n) == {f \in [1..n -> 1..n] : \A i, j \in 1..n : f[i] = f[j] => i = j}
Permuted(sel, f) == [i \in 1..Len(sel) |-> sel[f[i]]]

\* the smallest box that holds the boxes of all members of sel
Hull(sel) ==
    LET boxes == {sel[i].bbox : i \in DOMAIN sel}
    IN <<CHOOSE l \in {b[1] : b \in boxes} : \A b \in boxes : l <= b[1],
         CHOOSE l \in {b[2] : b \in boxes} : \A b \in boxes : l <= b[2],
         CHOOSE h \in {b[3] : b \in boxes} : \A b \in boxes : h >= b[3],
         CHOOSE h \in {b[4] : b \in boxes} : \A b \in boxes : h >= b[4]>>

\* C25: the bbox of a selection is the union of the members' boxes (the
\* member's box for one member), the same for every order of the members,
\* and the anchor is the bottom-left corner of that bbox.
C25_BboxIsUnion ==
    selection # NoSelection =>
        /\ selection_bbox(selection) = Hull(selection)
        /\ Len(selection) = 1 => selection_bbox(selection) = selection[1].bbox
        /\ \A f \in MemberOrders(Len(selection)) :
              /\ selection_bbox(Permuted(selection, f)) = selection_bbox(selection)
              /\ selection_position(Permuted(selection, f)) = selection_position(selection)
        /\ selection_position(selection) = <<Hull(selection)[1], Hull(selection)[2]>>

\* C25 witness: a selection of three members whose first member lies right of
\* another one
C25_Witness ==
    /\ Len(selection) = 3
    /\ \E i \in DOMAIN selection : selection[i].bbox[1] < selection[1].bbox[1]
    /\ selection_bbox(selection) = <<0, 0, 3, 2>>
    /\ selection_position(selection) = <<0, 0>>

\* ------------------------------------------- configuration-changed events
\* the names of the configuration events: the two angle modes and one the
\* editor options do not know
ConfigNames == {"edit-move-angle-mode", "edit-connect-angle-mode", "background-color"}

\* the host stores the value in the view's configuration
HostConfigured(v, name, value) ==
    IF name = "edit-move-angle-mode" THEN [v EXCEPT !.move_angle_mode = value]
    ELSE IF name = "edit-connect-angle-mode" THEN [v EXCEPT !.connect_angle_mode = value]
    ELSE v

\* the host changes a configuration value and tells the plugin
Configure ==
    /\ \E name \in ConfigNames, value \in AngleModes :
          /\ view' = HostConfigured(view, name, value)
          /\ DeliverTool(configure(Self, name, value))
    /\ UNCHANGED <<host_active, angle_call>>

NextConfigure ==
    \/ Activated
    \/ Deactivated
    \/ HostSelects
    \/ MouseMoved
    \/ MouseClicked
    \/ Configure

SpecConfigure == Init /\ [][NextConfigure]_vars

\* cursor points that lie, from the start cursor of the move, in a direction
\* each angle mode constrains differently
ProbePoints == {VecAdd(move_from_dpoint, <<4, 2>>), VecAdd(move_from_dpoint, <<2, 2>>)}

\* C26: a configuration event with an unknown name leaves both angle modes
\* (and everything else) as they are and returns "not handled"; an event
\* naming the move angle mode, or the connect angle mode, sets that mode and
\* leaves the other one; the next drag motion constrains the cursor with the
\* move angle mode then set.  Without editor options nothing changes.
C26_ConfigureSetsOneMode ==
    \A value \in AngleModes :
        LET unknown == configure(Self, "background-color", value)
            move == configure(Self, "edit-move-angle-mode", value)
            connect == configure(Self, "edit-connect-angle-mode", value)
        IN /\ unknown = [Self EXCEPT !.returned = "False"]
           /\ editor_options.kind = "None" =>
                 /\ move = [Self EXCEPT !.returned = "False"]
                 /\ connect = [Self EXCEPT !.returned = "False"]
           /\ editor_options.kind # "None" =>
                 /\ move = [Self EXCEPT !.editor_options.edit_move_angle_mode = value,
                                        !.returned = "False"]
                 /\ connect = [Self EXCEPT !.editor_options.edit_connect_angle_mode = value,
                                           !.returned = "False"]
           /\ (host_active /\ state = "moving" /\ selection # NoSelection
                  /\ editor_options.kind # "None") =>
                 \A dpoint \in ProbePoints :
                     LET start == snap_to_grid_if_necessary(editor_options, move_from_dpoint)
                         cursor == snap_to_grid_if_necessary(editor_options, dpoint)
                         delta(r) == mouse_moved_event(Fresh(r), dpoint, {}, TRUE)
                                        .move_operation.snapped_cursor_delta
                     IN /\ delta(move) = VecSub(constrain_angle(value, start, cursor), start)
                        /\ delta(connect) = delta(Self)
                        /\ delta(unknown) = delta(Self)

\* C26 witness: a move under the MANHATTAN move mode and the ANY connect
\* mode; the event for the move mode sets DIAGONAL, and the next motion by
\* (4, 2) gives the cursor delta (3, 3) instead of (4, 0)
C26_Witness ==
    /\ host_active /\ state = "moving" /\ selection # NoSelection
    /\ editor_options.kind # "None"
    /\ editor_options.edit_move_angle_mode = "ortho"
    /\ editor_options.edit_connect_angle_mode = "any"
    /\ LET r == configure(Self, "edit-move-angle-mode", "diagonal")
           dpoint == VecAdd(move_from_dpoint, <<4, 2>>)
       IN /\ r.editor_options.edit_connect_angle_mode = "any"
          /\ mouse_moved_event(Fresh(r), dpoint, {}, TRUE).move_operation.snapped_cursor_delta = <<3, 3>>
          /\ mouse_moved_event(Self, dpoint, {}, TRUE).move_operation.snapped_cursor_delta = <<4, 0>>

\* C27: the tool's selection never holds two members that refer to the same
\* transformee (the same top-level instance or the same shape).
C27_NoDuplicates ==
    selection # NoSelection =>
        Cardinality(SelTransformees(selection)) = Len(selection)

\* ------------------------------- the host's selection changes under the tool
\* while the tool is active the host's object selection is changed by
\* something else than the tool (select all, unselect all, a script); the
\* plugin has no handler for it
HostChangesSelection ==
    /\ host_active
    /\ \E q \in HostSelections : Deliver([Self EXCEPT !.object_selection = q])
    /\ UNCHANGED host_active

NextHostChanges ==
    \/ Activated
    \/ Deactivated
    \/ HostSelects
    \/ HostChangesSelection
    \/ MouseMoved
    \/ MouseClicked

SpecHostChanges == Init /\ [][NextHostChanges]_vars

\* the tool's selection is the one derived from the host's object selection
FollowsHost ==
    /\ (object_selection = <<>>) <=> (selection = NoSelection)
    /\ HostTransformees(object_selection) = SelTransformees(selection)
    /\ selection # NoSelection =>
          selection_position(selection) = AnchorIn(Self, SelTransformees(selection))

\* C28: in every state other than Inactive the members and the anchor of the
\* tool's selection correspond to the host's current object selection, also
\* after the host's selection was changed by something else than the tool.
C28_SelectionFollowsHost ==
    state # "inactive" => FollowsHost

\* ------------------------------------------------- the tool's hit tests
\* the events that lead to a hit-test (a click, a drag with the button held)
\* and those that move the objects to other places
NextHitTest ==
    \/ Activated
    \/ Deactivated
    \/ MouseMoved
    \/ MouseClicked
    \/ MousePressed
    \/ MouseDragged
    \/ MouseReleased

SpecHitTest == Init /\ [][NextHitTest]_vars

\* ----------------------------------------- the hit test under other views
\* layer lists of the view: none, the layer of the shapes (once, twice,
\* hidden, invalid, without layer index), a visible layer without shapes
ProbeLayers ==
    LET lref(vis, val, idx) == [visible |-> vis, valid |-> val, layer_index |-> idx]
    IN {<<>>, <<lref(TRUE, TRUE, 0)>>, <<lref(TRUE, TRUE, 0), lref(TRUE, TRUE, 0)>>,
        <<lref(FALSE, TRUE, 0)>>, <<lref(TRUE, FALSE, 0)>>, <<lref(TRUE, TRUE, -1)>>,
        <<lref(TRUE, TRUE, 1)>>, <<lref(FALSE, TRUE, 0), lref(TRUE, TRUE, 1)>>}

\* hierarchy-level limits of the view
ProbeLevels == 0..2

\* the view with other settings of what it shows
ProbeViews ==
    {[view EXCEPT !.max_hier_levels = h, !.top_cell_hidden = th,
                  !.hidden_cells = hc, !.layers = ls] :
        h \in ProbeLevels, th \in BOOLEAN, hc \in SUBSET Insts, ls \in ProbeLayers}

\* the tool as it is, with the view showing v
UnderView(v) == [Self EXCEPT !.view = v]

\* the rectangles a drag can span
ProbeBoxes == {DBox(p, q) : p \in PressPoints, q \in DragPoints \cup {<<4, 3>>}}

\* the layer of shape sh is shown by view v
LayerShown(v, sh) ==
    \E i \in DOMAIN v.layers :
        /\ v.layers[i].visible /\ v.layers[i].valid
        /\ v.layers[i].layer_index = ShapeLayer[sh]

\* the host path o may be selected under view v: an instance placed directly
\* in the top cell, neither hidden, or a shape of the top cell on a shown layer
Selectable(v, o) ==
    /\ ~v.top_cell_hidden
    /\ \/ /\ Len(o.path) = 1 /\ o.path[1] \in Insts /\ o.shape = ""
          /\ o.path[1] \notin v.hidden_cells
       \/ /\ o.path = <<>> /\ o.shape \in TopShapes /\ LayerShown(v, o.shape)

\* what C29 says of the record r a hit-test under view v left
OnlySelectable(v, r) ==
    r.raised = "" =>
        /\ \A i \in DOMAIN r.object_selection : Selectable(v, r.object_selection[i])
        /\ \A i, j \in DOMAIN r.object_selection :
              i # j => r.object_selection[i] # r.object_selection[j]
        /\ Len(r.selection) = Len(r.object_selection)
        /\ \A i \in DOMAIN r.selection : r.selection[i].path = r.object_selection[i]

PointCandidates(v, dpoint) ==
    HostTransformees(ScanTopCell(UnderView(v), DBox(dpoint, dpoint),
                                 "search_box_overlaps_object",
                                 [sel |-> <<>>, added |-> {}]).sel)

\* the objects view v lets the user select
Eligible(v) ==
    {t \in Transformees :
        Selectable(v, IF t \in Insts THEN [path |-> <<t>>, shape |-> ""]
                      ELSE [path |-> <<>>, shape |-> t])}

\* select-at-point with no candidate leaves an empty selection and no error
EmptyWithoutCandidates(v, dpoint) ==
    PointCandidates(v, dpoint) = {} =>
        \A choice \in 0..Cardinality(Transformees) :
            LET r == select_object_at(UnderView(v), dpoint, {}, choice)
            IN r.raised = "" /\ r.selection = NoSelection /\ r.object_selection = <<>>

\* C30 as claimed: for every hierarchy-level limit of the view, every
\* selectable object whose box touches the point is among the candidates of
\* select-at-point; with no candidate the selection is empty and no error is
\* raised.
C30_FindsAllTouching ==
    \A v \in ProbeViews, dpoint \in CursorPoints :
        /\ {t \in Eligible(v) : BoxTouches(BoxAt(pos[t]), DBox(dpoint, dpoint))}
              \subseteq PointCandidates(v, dpoint)
        /\ EmptyWithoutCandidates(v, dpoint)

\* C30: when the view shows at least one hierarchy level, every selectable
\* object whose box has the point in its interior is among the candidates of
\* select-at-point and every candidate is a selectable object whose box
\* touches the point; when the view shows no hierarchy level there is no
\* candidate; with no candidate the selection is empty and no error is raised.
C30_FindsAllInsideWhenShown ==
    \A v \in ProbeViews, dpoint \in CursorPoints :
        /\ v.max_hier_levels >= 1 =>
              /\ {t \in Eligible(v) : BoxOverlaps(BoxAt(pos[t]), DBox(dpoint, dpoint))}
                    \subseteq PointCandidates(v, dpoint)
              /\ PointCandidates(v, dpoint) \subseteq
                    {t \in Eligible(v) : BoxTouches(BoxAt(pos[t]), DBox(dpoint, dpoint))}
        /\ v.max_hier_levels < 1 => PointCandidates(v, dpoint) = {}
        /\ EmptyWithoutCandidates(v, dpoint)

\* C30 witness: the instance and the shape both have the cursor point in
\* their interior; with one hierarchy level shown both are candidates, with
\* none shown there is no candidate and the click leaves an empty selection
C30_Witness ==
    /\ host_active /\ state = "selecting"
    /\ \E dpoint \in CursorPoints :
          LET shown == [view EXCEPT !.max_hier_levels = 1]
              none == [view EXCEPT !.max_hier_levels = 0]
              r == select_object_at(UnderView(none), dpoint, {}, 0)
          IN /\ \A t \in Transformees : BoxOverlaps(BoxAt(pos[t]), DBox(dpoint, dpoint))
             /\ PointCandidates(shown, dpoint) = Transformees
             /\ PointCandidates(none, dpoint) = {}
             /\ r.raised = "" /\ r.selection = NoSelection /\ r.object_selection = <<>>

\* ------------------------------------------------ the panel's live fields
\* C31: in Moving, a drag motion writes X, Y, dX, dY to the panel; Enter in
\* the panel right afterwards, with the fields as written, commits a
\* TypedMove whose effective delta is the effective delta of the PointerMove
\* the motion built.
C31_FieldsDescribePreview ==
    (host_active /\ state = "moving" /\ selection # NoSelection
        /\ editor_options.kind # "None" /\ setupDock /\ move_from_dpoint # NoPoint) =>
    \A dpoint \in CursorPoints :
        LET r1 == mouse_moved_event(Self, dpoint, {}, TRUE)
            f == r1.written
            r2 == keyPressEvent(Fresh(r1), f[1], f[2], f[3], f[4], 0, FALSE)
        IN /\ r1.raised = "" /\ r1.built /\ Len(f) = 4
           /\ r2.raised = "" /\ r2.n_transaction = 1
           /\ r2.delta = effective_delta(r1.move_operation)

\* what the code does instead: X, Y hold the previewed position and dX, dY
\* the cursor delta, and the TypedMove adds both, so it moves by the
\* PointerMove's effective delta plus the snapped cursor delta once more
FieldsCountCursorDeltaTwice ==
    (host_active /\ state = "moving" /\ selection # NoSelection
        /\ editor_options.kind # "None" /\ setupDock /\ move_from_dpoint # NoPoint) =>
    \A dpoint \in CursorPoints :
        LET r1 == mouse_moved_event(Self, dpoint, {}, TRUE)
            f == r1.written
            r2 == keyPressEvent(Fresh(r1), f[1], f[2], f[3], f[4], 0, FALSE)
        IN /\ r1.raised = "" /\ r1.built /\ Len(f) = 4
           /\ r2.raised = "" /\ r2.n_transaction = 1
           /\ r2.delta = VecAdd(effective_delta(r1.move_operation),
                                r1.move_operation.snapped_cursor_delta)

\* ------------------------------------------------------- leaving Inactive
\* the state is Inactive after every event and every commit request (Enter
\* key, Enter in the panel) that reaches the tool in state Inactive, with prio
\* as the host gives it
StaysInactive ==
    /\ \A dpoint \in CursorPoints \cup DragPoints, buttons \in {{}, {"Shift"}} \cup PressButtons :
          mouse_moved_event(Self, dpoint, buttons, host_active).state = "inactive"
    /\ \A dpoint \in PressPoints, buttons \in PressButtons :
          mouse_button_pressed_event(Self, dpoint, buttons, host_active).state = "inactive"
    /\ \A dpoint \in CursorPoints, buttons \in PressButtons :
          mouse_button_released_event(Self, dpoint, buttons, host_active).state = "inactive"
    /\ \A dpoint \in CursorPoints, buttons \in ClickButtons :
          mouse_click_event(Self, dpoint, buttons, host_active, 0, 0, FALSE).state = "inactive"
    /\ \A key \in Keys, buttons \in KeyButtons :
          key_event(Self, key, buttons).state = "inactive"
    /\ \A target \in Positions, d \in TypedDeltas :
          keyPressEvent(Self, target[1], target[2], d[1], d[2], 0, FALSE).state = "inactive"

\* C32: while the state is Inactive no mouse, key or commit event changes it,
\* and in every state other than Inactive the editor options are present.
C32_InactiveUntilActivated ==
    /\ state = "inactive" => StaysInactive
    /\ state # "inactive" => editor_options.kind # "None"

\* --------------------------------------------------- a commit that fails
\* what C33 says of the commit of operation op
AllOrNothing(op) ==
    \A fail_at \in FailAts, deselects \in BOOLEAN :
        LET r == commit_move(Self, op, fail_at, deselects)
        IN IF r.raised # ""
           THEN \A t \in SelTransformees(selection) : r.pos[t] = pos[t]
           ELSE \A t \in SelTransformees(selection) : r.n_transform[t] >= 1

\* C33: when the translation of some member of the selection raises, the
\* layout commit_move leaves has no member of the selection translated;
\* when none raises, every transformee of the selection is translated.
C33_AllOrNothing ==
    selection # NoSelection =>
        /\ \A op \in TypedOperations : AllOrNothing(op)
        /\ move_operation.kind # "None" => AllOrNothing(move_operation)

\* what the code does instead: the members before the one whose translation
\* raised stay translated, and the transaction that holds them is committed
PartialMoveCommitted ==
    selection # NoSelection =>
        \A op \in TypedOperations, fail_at \in 1..Len(selection), deselects \in BOOLEAN :
            LET r == commit_move(Self, op, fail_at, deselects)
            IN /\ r.raised # "" /\ r.n_commit = 1 /\ r.open_transactions = 0
               /\ \A i \in 1..(fail_at - 1) : r.n_transform[TransformeeOf(selection[i])] >= 1

====
